---------------------------- MODULE Spec2Model ----------------------------
(***************************************************************************)
(* Samson Properties lead-gen service (src/app.py): the per-ZIP            *)
(* price-per-square-foot override store, the valuation engine, the lead    *)
(* table and the lead scoring function.                                    *)
(*                                                                         *)
(* Representation.                                                         *)
(*   - A Python str is a sequence of one-character strings, so that        *)
(*     strip(), len(), isdigit(), str() and float() are computed.          *)
(*   - A Python float is Fin(t), t an integer number of TENTHS (300.0 is   *)
(*     Fin(3000), 202.4 is Fin(2024)), or Inf(+1) / Inf(-1).  NaN is not   *)
(*     in the input domain.                                                *)
(*   - The adjustment factor is an integer number of THOUSANDTHS           *)
(*     (1.23 is 1230); the band and the county multipliers are integer     *)
(*     HUNDREDTHS (0.08 is 8, 1.45 is 145).                                *)
(*   - A JSON value is JNull (also an absent key), JInt(n), JFloat(t)      *)
(*     (t tenths), JStr(s) or JBool(b).                                    *)
(*                                                                         *)
(* Specifications.                                                         *)
(*   Spec          the override store and the valuation route              *)
(*   SpecEstimate  the valuation route over a wide range of descriptors    *)
(*   SpecScore     compute_score over every lead of its input domain       *)
(*   SpecLeads     the lead routes                                         *)
(*   SpecRace      two calls of admin_set_ppsf, interleaved by statement   *)
(*   SpecRepeat    valuations repeated between writes and new leads        *)
(*   SpecGate      every route behind the admin gate                       *)
(*   SpecFrame     lead updates with payloads naming id and created_at     *)
(***************************************************************************)
EXTENDS Integers, Sequences, FiniteSets, TLC

VARIABLES
    adminKey,   \* ADMIN_KEY, read from the environment at import (app.py:11)
    overrides,  \* table ZipPPSF: zip (primary key) -> ppsf, a Python float
    leads,      \* table Lead: id (primary key) -> row
    call,       \* the request being answered (Idle when there is none)
    before,     \* history: overrides and leads as they were when `call` arrived
    response,   \* what the handler returned for `call`
    written,    \* history: zip -> the ppsf the latest write for that zip assigned
    sessions,   \* concurrent writers: writer -> its request, position and Session
    last        \* history: the latest valuation the client has read

vars == <<adminKey, overrides, leads, call, before, response, written, sessions, last>>

-----------------------------------------------------------------------------
(* Text *)

WS == {" ", "\t", "\n"}

Digits == <<"0", "1", "2", "3", "4", "5", "6", "7", "8", "9">>

IsDigitChar(c) == \E i \in 1..10 : Digits[i] = c

DigitValue(c) == (CHOOSE i \in 1..10 : Digits[i] = c) - 1

RECURSIVE LStrip(_)
LStrip(s) ==
    IF s # <<>> /\ Head(s) \in WS THEN LStrip(Tail(s)) ELSE s

RECURSIVE RStrip(_)
RStrip(s) ==
    IF s # <<>> /\ s[Len(s)] \in WS THEN RStrip(SubSeq(s, 1, Len(s) - 1)) ELSE s

\* str.strip()
Strip(s) == RStrip(LStrip(s))

\* str.isdigit(): non-empty and every character a digit
IsDigit(s) == s # <<>> /\ \A i \in 1..Len(s) : IsDigitChar(s[i])

RECURSIVE DigitsValue(_)
DigitsValue(s) ==
    IF s = <<>> THEN 0
    ELSE 10 * DigitsValue(SubSeq(s, 1, Len(s) - 1)) + DigitValue(s[Len(s)])

RECURSIVE NatToChars(_)
NatToChars(n) ==
    IF n < 10 THEN <<Digits[n + 1]>>
    ELSE NatToChars(n \div 10) \o <<Digits[(n % 10) + 1]>>

\* str(n) for an int
IntToChars(n) == IF n < 0 THEN <<"-">> \o NatToChars(-n) ELSE NatToChars(n)

UpperLetters ==
    <<"A", "B", "C", "D", "E", "F", "G", "H", "I", "J", "K", "L", "M",
      "N", "O", "P", "Q", "R", "S", "T", "U", "V", "W", "X", "Y", "Z">>

LowerLetters ==
    <<"a", "b", "c", "d", "e", "f", "g", "h", "i", "j", "k", "l", "m",
      "n", "o", "p", "q", "r", "s", "t", "u", "v", "w", "x", "y", "z">>

LowerOf(c) ==
    IF \E i \in 1..26 : UpperLetters[i] = c
    THEN LowerLetters[CHOOSE i \in 1..26 : UpperLetters[i] = c]
    ELSE c

Lower(s) == [i \in 1..Len(s) |-> LowerOf(s[i])]

-----------------------------------------------------------------------------
(* JSON values and Python floats *)

JNull == [k |-> "null"]
JInt(n) == [k |-> "int", n |-> n]
JFloat(t) == [k |-> "float", t |-> t]
JStr(s) == [k |-> "str", s |-> s]
JBool(b) == [k |-> "bool", b |-> b]

Fin(t) == [f |-> "fin", t |-> t]
Inf(sign) == [f |-> "inf", t |-> sign]

Ok(v) == [ok |-> TRUE, v |-> v]
Raise(e) == [ok |-> FALSE, e |-> e]

\* float(text): surrounding whitespace ignored, an optional sign, then decimal
\* digits or "inf" in any case; anything else is a ValueError.
FloatOfText(s) ==
    LET t == Strip(s)
        neg == t # <<>> /\ Head(t) = "-"
        signed == t # <<>> /\ Head(t) \in {"-", "+"}
        u == IF signed THEN Tail(t) ELSE t
    IN  IF IsDigit(u)
        THEN Ok(Fin((IF neg THEN -10 ELSE 10) * DigitsValue(u)))
        ELSE IF Lower(u) = <<"i", "n", "f">>
        THEN Ok(Inf(IF neg THEN -1 ELSE 1))
        ELSE Raise("ValueError")

\* float(x) for a JSON value x
PyFloat(x) ==
    CASE x.k = "null" -> Raise("TypeError")
      [] x.k = "int" -> Ok(Fin(10 * x.n))
      [] x.k = "float" -> Ok(Fin(x.t))
      [] x.k = "str" -> FloatOfText(x.s)

\* bool(x): Python truthiness of a JSON value
Truthy(x) ==
    CASE x.k = "null" -> FALSE
      [] x.k = "int" -> x.n # 0
      [] x.k = "float" -> x.t # 0
      [] x.k = "str" -> x.s # <<>>
      [] x.k = "bool" -> x.b

\* str(x)
PyStr(x) ==
    CASE x.k = "null" -> <<"N", "o", "n", "e">>
      [] x.k = "int" -> IntToChars(x.n)
      [] x.k = "str" -> x.s


-----------------------------------------------------------------------------
(* Valuation config (app.py:58-81) *)

Dollars(n) == Fin(10 * n)

PG_PPSF_ROWS ==
    { <<20706, 255>>, <<20707, 260>>, <<20708, 245>>, <<20710, 240>>, <<20712, 270>>,
      <<20715, 250>>, <<20716, 255>>, <<20720, 265>>, <<20721, 270>>, <<20722, 245>>,
      <<20735, 250>>, <<20737, 255>>, <<20740, 275>>, <<20742, 280>>, <<20743, 235>>,
      <<20744, 245>>, <<20745, 250>>, <<20746, 240>>, <<20747, 238>>, <<20748, 242>>,
      <<20769, 260>>, <<20770, 265>>, <<20771, 270>>, <<20772, 255>>, <<20774, 268>>,
      <<20781, 248>>, <<20782, 252>>, <<20783, 258>>, <<20784, 245>>, <<20785, 240>> }

\* The seed map: the five-character zip text -> dollars per square foot.
PG_PPSF_BASE ==
    [z \in {IntToChars(r[1]) : r \in PG_PPSF_ROWS} |->
        Dollars((CHOOSE r \in PG_PPSF_ROWS : IntToChars(r[1]) = z)[2])]

\* 220.0, in tenths
DEFAULT_PPSF == 2200

\* County name -> multiplier in hundredths.  "RSQUO" stands for the single
\* character U+2019 of "Prince George's" as the source spells it.
COUNTY_MULT_ROWS ==
    { <<<<"P", "r", "i", "n", "c", "e", " ", "G", "e", "o", "r", "g", "e", "RSQUO", "s">>, 100>>,
      <<<<"C", "a", "l", "v", "e", "r", "t">>, 95>>,
      <<<<"S", "t", ".", " ", "M", "a", "r", "y", "'", "s">>, 92>>,
      <<<<"C", "h", "a", "r", "l", "e", "s">>, 95>>,
      <<<<"A", "n", "n", "e", " ", "A", "r", "u", "n", "d", "e", "l">>, 115>>,
      <<<<"M", "o", "n", "t", "g", "o", "m", "e", "r", "y">>, 145>>,
      <<<<"H", "o", "w", "a", "r", "d">>, 130>> }

COUNTY_MULT ==
    [c \in {r[1] : r \in COUNTY_MULT_ROWS} |->
        (CHOOSE r \in COUNTY_MULT_ROWS : r[1] = c)[2]]

NeedsWork == <<"N", "e", "e", "d", "s", " ", "w", "o", "r", "k">>
Average == <<"A", "v", "e", "r", "a", "g", "e">>
Updated == <<"U", "p", "d", "a", "t", "e", "d">>
Renovated == <<"R", "e", "n", "o", "v", "a", "t", "e", "d">>

\* Condition -> adjustment in thousandths.
CONDITION_ADJ ==
    [c \in {NeedsWork, Average, Updated, Renovated} |->
        CASE c = NeedsWork -> -100
          [] c = Average -> 0
          [] c = Updated -> 50
          [] c = Renovated -> 100]

-----------------------------------------------------------------------------
(* Valuation engine (app.py:83-106) *)

\* dict.get(key, default)
DictGet(d, key, default) == IF key \in DOMAIN d THEN d[key] ELSE default

\* Mutant: the seed rate hides the override.
current_ppsf_map_seed_wins ==
    [z \in (DOMAIN PG_PPSF_BASE) \cup (DOMAIN overrides) |->
        IF z \in DOMAIN PG_PPSF_BASE THEN PG_PPSF_BASE[z] ELSE overrides[z]]

\* current_ppsf_map(): the seed map updated with every ZipPPSF row, read from
\* the table at the time of the call.
current_ppsf_map ==
    [z \in (DOMAIN PG_PPSF_BASE) \cup (DOMAIN overrides) |->
        IF z \in DOMAIN overrides THEN overrides[z] ELSE PG_PPSF_BASE[z]]

\* Mutant: the text is not stripped.
OrEmpty_unstripped(x) ==
    IF ~Truthy(x) THEN Ok(<<>>)
    ELSE IF x.k = "str" THEN Ok(x.s)
    ELSE Raise("AttributeError")

\* (x or "").strip(): a falsy x gives "", text is stripped, and a truthy
\* number has no strip().
OrEmptyStrip(x) ==
    IF ~Truthy(x) THEN Ok(<<>>)
    ELSE IF x.k = "str" THEN Ok(Strip(x.s))
    ELSE Raise("AttributeError")

\* A JSON number in tenths.
Tenths(x) == IF x.k = "int" THEN 10 * x.n ELSE x.t

\* DEFAULT_PPSF * county_mult; 2200 tenths times a whole number of hundredths
\* is a whole number of tenths.  (As doubles the products are these decimals
\* but for 220.0 * 1.15, which is 252.99999999999997 and is held as 253.0.)
DefaultTimes(mult) == Fin((DEFAULT_PPSF * mult) \div 100)

\* Mutant: the default without the floor.
SqftUsed_unfloored(sqft) == IF Truthy(sqft) THEN sqft.n ELSE 1800

\* max(600, (sqft or 1800)) for an int or absent sqft
SqftUsed(sqft) ==
    LET v == IF Truthy(sqft) THEN sqft.n ELSE 1800
    IN  IF v > 600 THEN v ELSE 600

\* Mutant: four bedrooms fall in the top tier.
BedsAdj_four_is_top(beds) ==
    IF Truthy(beds)
    THEN IF Tenths(beds) >= 40 THEN 80
         ELSE IF Tenths(beds) = 30 THEN 20
         ELSE 0
    ELSE 0

\* if beds: adj += 0.08 if beds >= 5 else 0.05 if beds == 4 else 0.02 if beds == 3 else 0
BedsAdj(beds) ==
    IF Truthy(beds)
    THEN IF Tenths(beds) >= 50 THEN 80
         ELSE IF Tenths(beds) = 40 THEN 50
         ELSE IF Tenths(beds) = 30 THEN 20
         ELSE 0
    ELSE 0

\* if baths: adj += 0.05 if (baths or 0) >= 3 else 0.03 if (baths or 0) >= 2 else 0
BathsAdj(baths) ==
    IF Truthy(baths)
    THEN IF Tenths(baths) >= 30 THEN 50
         ELSE IF Tenths(baths) >= 20 THEN 30
         ELSE 0
    ELSE 0

\* if condition and condition in CONDITION_ADJ: adj += CONDITION_ADJ[condition]
ConditionAdj(condition) ==
    IF Truthy(condition) /\ condition.k = "str" /\ condition.s \in DOMAIN CONDITION_ADJ
    THEN CONDITION_ADJ[condition.s]
    ELSE 0

\* round(adj, 3): adj is a sum of multiples of 0.01 whose float error is far
\* below 0.0005, so the result is the exact number of thousandths.
Round3(adjThousandths) == adjThousandths

\* round(n + num/den) for an integer n and 0 <= num/den.  The code rounds
\* the double base_ppsf * sqft * adj, whose distance from the exact product is
\* below 1e-9: the two round alike unless the exact product lies midway
\* between two integers, where the double may fall on either side.  The
\* operator is left undefined there, and no descriptor of the input domains
\* has such a product.
RoundNearest(n, num, den) ==
    LET f == num \div den
        r == num % den
        lo == n + f
    IN  CASE 2 * r > den -> lo + 1
          [] 2 * r < den -> lo

\* round(base_ppsf * sqft * adj) with base_ppsf in tenths and adj in
\* thousandths: (t * sqft) * adj / 10000, split so that no product leaves
\* 32 bits.
RoundProduct(t, sqft, adj) ==
    LET a == t * sqft
        q == a \div 10000
        r == a % 10000
    IN  RoundNearest(q * adj, r * adj, 10000)

\* Mutant: the bound is rounded to the nearest integer instead of cut.
IntOfPercent_rounded(est, pct) ==
    LET n == est * pct + 50
    IN  IF n >= 0 THEN n \div 100 ELSE -((-n) \div 100)

\* int(est * (1 -/+ band)): truncation toward zero of est * pct / 100 (the
\* double product truncates like the exact one for |est| up to 3,000,000).
IntOfPercent(est, pct) ==
    LET n == est * pct
    IN  IF n >= 0 THEN n \div 100 ELSE -((-n) \div 100)

\* band = 0.05 if condition else 0.08, in hundredths
Band(condition) == IF Truthy(condition) THEN 5 ELSE 8

estimate_value(zip_code, beds, baths, sqft, condition, county) ==
    LET ppsf_map == current_ppsf_map
        zip_clean == OrEmptyStrip(zip_code)
        county_clean == OrEmptyStrip(county)
        county_mult == DictGet(COUNTY_MULT, county_clean.v, 100)
        base_ppsf == DictGet(ppsf_map, zip_clean.v, DefaultTimes(county_mult))
        sqft_used == SqftUsed(sqft)
        adj == 1000 + BedsAdj(beds) + BathsAdj(baths) + ConditionAdj(condition)
        est == RoundProduct(base_ppsf.t, sqft_used, adj)
        band == Band(condition)
    IN  IF ~zip_clean.ok THEN zip_clean
        ELSE IF ~county_clean.ok THEN county_clean
        ELSE IF base_ppsf.f = "inf" THEN Raise("OverflowError")
        ELSE Ok([estimate |-> est,
                 low |-> IntOfPercent(est, 100 - band),
                 high |-> IntOfPercent(est, 100 + band),
                 ppsf_used |-> base_ppsf,
                 sqft_used |-> sqft_used,
                 adjustment |-> Round3(adj),
                 band |-> band])

-----------------------------------------------------------------------------
(* HTTP layer *)

Idle == [op |-> "idle"]
NoResponse == [status |-> 0]
NoBefore == [op |-> "idle"]

\* raise HTTPException(code), or an uncaught exception (500)
Http(code) == [status |-> code]

\* return {...}
Http200(body) == [status |-> 200, body |-> body]

\* Mutant: a call without the header passes the gate.
require_admin_absent_passes(h) == ~(Truthy(adminKey) /\ h # adminKey /\ h # JNull)

\* _require_admin(h): TRUE when the call goes on
require_admin(h) == ~(Truthy(adminKey) /\ h # adminKey)

\* Starlette renders a response with json.dumps(allow_nan=False): a float that
\* is not finite in the body is a ValueError, a 500, raised after the handler
\* returned.
Rendered(resp, floats) ==
    IF \E x \in floats : x.f # "fin" THEN Http(500) ELSE resp

Values(f) == {f[x] : x \in DOMAIN f}

-----------------------------------------------------------------------------
(* Override store (app.py:206-243) *)

\* Mutant: the write replaces the table by the one row.
Upsert_replaces_table(table, z, p) == [k \in {z} |-> p]

\* row = s.get(ZipPPSF, z); if row: row.ppsf = p; else: s.add(ZipPPSF(zip=z, ppsf=p))
Upsert(table, z, p) ==
    IF z \in DOMAIN table
    THEN [table EXCEPT ![z] = p]
    ELSE [k \in (DOMAIN table) \cup {z} |-> IF k = z THEN p ELSE table[k]]

\* The history of writes: the latest value assigned for each zip.
Record(log, z, p) ==
    [k \in (DOMAIN log) \cup {z} |-> IF k = z THEN p ELSE log[k]]

\* A handler's outcome: its response, the table after it and the history.
Outcome(resp, table, log) == [resp |-> resp, table |-> table, log |-> log]

\* POST /api/admin/ppsf
admin_set_ppsf(item, x_admin_key) ==
    LET z == OrEmptyStrip(item.zip)
        p == PyFloat(item.ppsf)
    IN  IF ~require_admin(x_admin_key) THEN Outcome(Http(401), overrides, written)
        ELSE IF ~z.ok THEN Outcome(Http(500), overrides, written)
        ELSE IF ~p.ok THEN Outcome(Http(500), overrides, written)
        ELSE IF z.v = <<>> \/ Len(z.v) # 5 THEN Outcome(Http(400), overrides, written)
        ELSE Outcome(Rendered(Http200([zip |-> z.v, ppsf |-> p.v]), {p.v}),
                     Upsert(overrides, z.v, p.v),
                     Record(written, z.v, p.v))

\* One pass of the loop of admin_set_ppsf_bulk over `it`, on the session's
\* view st = <<table, log>>.  Any exception is caught and the item skipped.
BulkStep(st, it) ==
    LET z == Strip(PyStr(it.zip))
        p == PyFloat(it.ppsf)
    IN  IF ~p.ok THEN st
        ELSE IF Len(z) = 5
        THEN <<Upsert(st[1], z, p.v), Record(st[2], z, p.v)>>
        ELSE st

RECURSIVE BulkLoop(_, _)
BulkLoop(st, items) ==
    IF items = <<>> THEN st
    ELSE BulkLoop(BulkStep(st, Head(items)), Tail(items))

\* POST /api/admin/ppsf/bulk
admin_set_ppsf_bulk(items, x_admin_key) ==
    LET st == BulkLoop(<<overrides, written>>, items)
    IN  IF ~require_admin(x_admin_key) THEN Outcome(Http(401), overrides, written)
        ELSE Outcome(Http200([count |-> Len(items)]), st[1], st[2])

\* GET /api/admin/ppsf
admin_get_ppsf(x_admin_key) ==
    IF ~require_admin(x_admin_key) THEN Http(401)
    ELSE Rendered(Http200([ppsf |-> current_ppsf_map, overrides |-> overrides]),
                  Values(overrides))

\* POST /api/valuation
api_valuation(payload) ==
    LET v == estimate_value(payload.zip_code, payload.beds, payload.baths,
                            payload.sqft, payload.condition, payload.county)
    IN  IF v.ok THEN Http200([valuation |-> v.v]) ELSE Http(500)

-----------------------------------------------------------------------------
(* Leads (app.py:19-44, 108-117, 155-204) *)

Seller == <<"s", "e", "l", "l", "e", "r">>
Buyer == <<"b", "u", "y", "e", "r">>
T0to3 == <<"0", "-", "3">>
T3to6 == <<"3", "-", "6">>
T6to12 == <<"6", "-", "1", "2">>
StNew == <<"N", "e", "w">>
StContacted == <<"C", "o", "n", "t", "a", "c", "t", "e", "d">>
StQualified == <<"Q", "u", "a", "l", "i", "f", "i", "e", "d">>
StAppointment == <<"A", "p", "p", "o", "i", "n", "t", "m", "e", "n", "t">>
StAgreement == <<"A", "g", "r", "e", "e", "m", "e", "n", "t">>
StClosedLost == <<"C", "l", "o", "s", "e", "d", "/", "L", "o", "s", "t">>

\* The columns of Lead that a handler reads or assigns; the other optional
\* columns (last_name, zip_code, county, beds, baths, sqft, price_min,
\* price_max, condition) are carried exactly like first_name and tags.
\* created_at and updated_at are clock readings.
LeadDefaults ==
    [role |-> JNull, first_name |-> JNull, email |-> JNull, phone |-> JNull,
     address |-> JNull, timeline |-> JNull, tags |-> JNull,
     stage |-> JStr(StNew), consent_sms |-> JBool(FALSE),
     consent_email |-> JBool(FALSE), score |-> JInt(0),
     created_at |-> 0, updated_at |-> 0]

\* Mutant: Qualified weighs what Contacted weighs.
StageWeight_flat(stage) ==
    CASE stage = JStr(StContacted) -> 5
      [] stage = JStr(StQualified) -> 5
      [] stage = JStr(StAppointment) -> 20
      [] stage = JStr(StAgreement) -> 30
      [] OTHER -> 0

\* The stage weights of compute_score, {...}.get(ld.stage, 0)
StageWeight(stage) ==
    CASE stage = JStr(StNew) -> 0
      [] stage = JStr(StContacted) -> 5
      [] stage = JStr(StQualified) -> 10
      [] stage = JStr(StAppointment) -> 20
      [] stage = JStr(StAgreement) -> 30
      [] stage = JStr(StClosedLost) -> 0
      [] OTHER -> 0

\* Mutant: a seller scores the address points without an address.
compute_score_any_seller(ld) ==
    LET s1 == IF Truthy(ld.phone) THEN 15 ELSE 0
        s2 == s1 + (IF Truthy(ld.email) THEN 10 ELSE 0)
        s3 == s2 + (IF ld.timeline \in {JStr(T0to3), JStr(T3to6)} THEN 15 ELSE 0)
        s4 == s3 + (IF ld.role = JStr(Seller) THEN 20 ELSE 0)
        s5 == s4 + (IF Truthy(ld.consent_sms) THEN 10 ELSE 0)
        s6 == s5 + (IF Truthy(ld.consent_email) THEN 5 ELSE 0)
    IN  s6 + StageWeight(ld.stage)

compute_score(ld) ==
    LET s1 == IF Truthy(ld.phone) THEN 15 ELSE 0
        s2 == s1 + (IF Truthy(ld.email) THEN 10 ELSE 0)
        s3 == s2 + (IF ld.timeline \in {JStr(T0to3), JStr(T3to6)} THEN 15 ELSE 0)
        s4 == s3 + (IF ld.role = JStr(Seller) /\ Truthy(ld.address) THEN 20 ELSE 0)
        s5 == s4 + (IF Truthy(ld.consent_sms) THEN 10 ELSE 0)
        s6 == s5 + (IF Truthy(ld.consent_email) THEN 5 ELSE 0)
    IN  s6 + StageWeight(ld.stage)

\* Lead(**payload) and the setattr loop of update_lead: every key of the
\* payload that is an attribute of the row is assigned, the others are ignored.
SetAttrs(ld, payload) ==
    [f \in DOMAIN ld |-> IF f \in DOMAIN payload THEN payload[f] ELSE ld[f]]

\* The rowid SQLite gives a row inserted without one.
NextId == IF DOMAIN leads = {} THEN 1
          ELSE (CHOOSE i \in DOMAIN leads : \A j \in DOMAIN leads : j <= i) + 1

LeadOutcome(resp, table) == [resp |-> resp, table |-> table]

\* POST /api/leads; `now` is what datetime.utcnow() returns.  role is a
\* required column: a row without one is refused at commit.
create_lead(payload, now) ==
    LET built == [SetAttrs([LeadDefaults EXCEPT !.created_at = now], payload)
                    EXCEPT !.updated_at = now]
        lead == [built EXCEPT !.score = JInt(compute_score(built))]
        id == NextId
    IN  IF lead.role = JNull THEN LeadOutcome(Http(500), leads)
        ELSE LeadOutcome(Http200([lead |-> lead, id |-> id]),
                         [i \in (DOMAIN leads) \cup {id} |->
                             IF i = id THEN lead ELSE leads[i]])

\* Mutant: the score is kept as the setattr loop left it.
update_lead_keeps_score(lead_id, payload, x_admin_key, now) ==
    LET ld == [SetAttrs(leads[lead_id], payload) EXCEPT !.updated_at = now]
    IN  IF ~require_admin(x_admin_key) THEN LeadOutcome(Http(401), leads)
        ELSE IF lead_id \notin DOMAIN leads THEN LeadOutcome(Http(404), leads)
        ELSE LeadOutcome(Http200([lead |-> ld, id |-> lead_id]),
                         [leads EXCEPT ![lead_id] = ld])

\* The table with the row of key `old` stored as `ld` under key `new`:
\* UPDATE lead SET id = new, ... WHERE id = old.
Rekey(table, old, new, ld) ==
    [i \in ((DOMAIN table) \ {old}) \cup {new} |-> IF i = new THEN ld ELSE table[i]]

\* PATCH /api/leads/{lead_id}.  The setattr loop assigns every key of the
\* payload that is an attribute of the row, id and created_at included.  At
\* the commit a created_at taken from JSON is no datetime and is refused, and
\* an id that another row holds violates the primary key: the route answers
\* 500 and nothing is written.  Any other id becomes the row's primary key.
update_lead(lead_id, payload, x_admin_key, now) ==
    LET set == [SetAttrs(leads[lead_id], payload) EXCEPT !.updated_at = now]
        ld == [set EXCEPT !.score = JInt(compute_score(set))]
        new_id == IF "id" \in DOMAIN payload THEN payload.id.n ELSE lead_id
    IN  IF ~require_admin(x_admin_key) THEN LeadOutcome(Http(401), leads)
        ELSE IF lead_id \notin DOMAIN leads THEN LeadOutcome(Http(404), leads)
        ELSE IF "created_at" \in DOMAIN payload THEN LeadOutcome(Http(500), leads)
        ELSE IF new_id # lead_id /\ new_id \in DOMAIN leads
        THEN LeadOutcome(Http(500), leads)
        ELSE LeadOutcome(Http200([lead |-> ld, id |-> new_id]),
                         Rekey(leads, lead_id, new_id, ld))

\* " ".join(parts)
RECURSIVE JoinSpace(_)
JoinSpace(parts) ==
    IF parts = <<>> THEN <<>>
    ELSE IF Len(parts) = 1 THEN parts[1]
    ELSE parts[1] \o <<" ">> \o JoinSpace(Tail(parts))

\* needle in hay, for two texts
Contains(hay, needle) ==
    \E i \in 0..(Len(hay) - Len(needle)) : SubSeq(hay, i + 1, i + Len(needle)) = needle

\* str(getattr(ld, k, "") or "")
StrOrEmpty(x) == IF Truthy(x) THEN PyStr(x) ELSE <<>>

\* The text list_leads searches: first_name, last_name, email, phone, address,
\* zip_code, county, tags, role and stage joined by spaces and lowered.  The
\* columns the model does not carry (last_name, zip_code, county) are absent.
Blob(ld) ==
    Lower(JoinSpace(<<StrOrEmpty(ld.first_name), <<>>, StrOrEmpty(ld.email),
                      StrOrEmpty(ld.phone), StrOrEmpty(ld.address), <<>>, <<>>,
                      StrOrEmpty(ld.tags), StrOrEmpty(ld.role), StrOrEmpty(ld.stage)>>))

\* The rows of a table in the order of their primary key.
RECURSIVE RowsById(_, _)
RowsById(table, ids) ==
    IF ids = {} THEN <<>>
    ELSE LET id == CHOOSE i \in ids : \A j \in ids : i <= j
         IN  <<[lead |-> table[id], id |-> id]>> \o RowsById(table, ids \ {id})

\* sort(key=(score, created_at), reverse=True): the sort is stable, so rows
\* with equal keys keep the order of the select.
SortsBefore(a, b) ==
    \/ a.lead.score.n > b.lead.score.n
    \/ a.lead.score.n = b.lead.score.n /\ a.lead.created_at > b.lead.created_at
    \/ a.lead.score.n = b.lead.score.n /\ a.lead.created_at = b.lead.created_at
                                       /\ a.id < b.id

\* GET /api/leads
list_leads(q, role, stage, x_admin_key) ==
    LET Keeps(r) ==
            /\ ~(Truthy(role) /\ r.lead.role # role)
            /\ ~(Truthy(stage) /\ r.lead.stage # stage)
            /\ ~(Truthy(q) /\ ~Contains(Blob(r.lead), Lower(q.s)))
        out == SelectSeq(RowsById(leads, DOMAIN leads), Keeps)
    IN  IF ~require_admin(x_admin_key) THEN Http(401)
        ELSE Http200([items |-> SortSeq(out, SortsBefore)])

-----------------------------------------------------------------------------
(* Inputs *)

\* The longest batch a bulk import carries.
MaxBatch == 2

Z20774 == <<"2", "0", "7", "7", "4">>
Z20774Padded == <<" ", "2", "0", "7", "7", "4", " ">>
Z20777 == <<"2", "0", "7", "7", "7">>
Z00000 == <<"0", "0", "0", "0", "0">>
ZLetters == <<"a", "b", "c", "d", "e">>
ZShort == <<"1">>
Bad == <<"b", "a", "d">>
Infinity == <<"i", "n", "f">>
T275 == <<"2", "7", "5">>
Secret == <<"s", "3", "c", "r", "3", "t">>
Wrong == <<"w", "r", "o", "n", "g">>
Montgomery == <<"M", "o", "n", "t", "g", "o", "m", "e", "r", "y">>
MontgomeryPadded == <<" ", "M", "o", "n", "t", "g", "o", "m", "e", "r", "y", " ">>
Calvert == <<"C", "a", "l", "v", "e", "r", "t">>
Fairfax == <<"F", "a", "i", "r", "f", "a", "x">>
Luxury == <<"L", "u", "x", "u", "r", "y">>

AdminKeys == {JNull, JStr(Secret)}
Headers == {JNull, JStr(Secret), JStr(Wrong)}

ZipInputs ==
    {JNull, JStr(Z20774), JStr(Z20774Padded), JStr(Z00000), JStr(ZLetters),
     JStr(ZShort), JInt(20774)}

PriceInputs ==
    {JInt(300), JStr(T275), JInt(0), JInt(-5), JStr(Bad), JStr(Infinity), JNull}

SetItems == [zip : ZipInputs, ppsf : PriceInputs]

BulkItems ==
    { [zip |-> JStr(Z20774), ppsf |-> JInt(300)],
      [zip |-> JStr(Z20774Padded), ppsf |-> JStr(T275)],
      [zip |-> JStr(ZShort), ppsf |-> JInt(10)],
      [zip |-> JStr(Z20777), ppsf |-> JStr(Bad)],
      [zip |-> JStr(ZLetters), ppsf |-> JInt(300)],
      [zip |-> JStr(Z00000), ppsf |-> JInt(-5)],
      [zip |-> JInt(20774), ppsf |-> JStr(Infinity)],
      [zip |-> JNull, ppsf |-> JNull] }

Batches == UNION {[1..n -> BulkItems] : n \in 0..MaxBatch}

\* Descriptors sent while the store changes: every way the zip and the county
\* resolve, with the other fields absent or present.
StorePayloads ==
    [zip_code : {JNull, JStr(Z20774), JStr(Z20774Padded), JStr(Z00000),
                 JStr(ZLetters), JStr(Z20777), JInt(20774)},
     county : {JNull, JStr(Montgomery), JStr(MontgomeryPadded), JStr(Fairfax)},
     beds : {JNull, JInt(5)},
     baths : {JNull},
     sqft : {JNull, JInt(2000)},
     condition : {JNull, JStr(Renovated)}]

-----------------------------------------------------------------------------
(* The service: one request is answered at a time.  `call`, `before` and    *)
(* `response` keep the request, the tables it found and its answer until    *)
(* the client has read the answer.                                          *)

Snapshot == [overrides |-> overrides, leads |-> leads]

EmptyTable == [z \in {} |-> 0]

NoValuation == [op |-> "idle"]

Init ==
    /\ adminKey \in AdminKeys
    /\ overrides = EmptyTable
    /\ leads = EmptyTable
    /\ written = EmptyTable
    /\ call = Idle
    /\ before = NoBefore
    /\ response = NoResponse
    /\ sessions = EmptyTable
    /\ last = NoValuation

AdminSetPpsf ==
    /\ call = Idle
    /\ \E item \in SetItems, h \in Headers :
          LET r == admin_set_ppsf(item, h)
          IN  /\ call' = [op |-> "set", item |-> item, key |-> h]
              /\ before' = Snapshot
              /\ response' = r.resp
              /\ overrides' = r.table
              /\ written' = r.log
    /\ UNCHANGED <<adminKey, leads, sessions, last>>

AdminSetPpsfBulk ==
    /\ call = Idle
    /\ \E items \in Batches, h \in Headers :
          LET r == admin_set_ppsf_bulk(items, h)
          IN  /\ call' = [op |-> "bulk", items |-> items, key |-> h]
              /\ before' = Snapshot
              /\ response' = r.resp
              /\ overrides' = r.table
              /\ written' = r.log
    /\ UNCHANGED <<adminKey, leads, sessions, last>>

AdminGetPpsf ==
    /\ call = Idle
    /\ \E h \in Headers :
          /\ call' = [op |-> "get", key |-> h]
          /\ before' = Snapshot
          /\ response' = admin_get_ppsf(h)
    /\ UNCHANGED <<adminKey, overrides, leads, written, sessions, last>>

ApiValuation ==
    /\ call = Idle
    /\ \E payload \in StorePayloads :
          /\ call' = [op |-> "valuation", payload |-> payload]
          /\ before' = Snapshot
          /\ response' = api_valuation(payload)
    /\ UNCHANGED <<adminKey, overrides, leads, written, sessions, last>>

\* The client reads the answer; the next request may come.
Deliver ==
    /\ call # Idle
    /\ call' = Idle
    /\ before' = NoBefore
    /\ response' = NoResponse
    /\ UNCHANGED <<adminKey, overrides, leads, written, sessions, last>>

Next ==
    \/ AdminSetPpsf
    \/ AdminSetPpsfBulk
    \/ AdminGetPpsf
    \/ ApiValuation
    \/ Deliver

Spec == Init /\ [][Next]_vars

-----------------------------------------------------------------------------
(* What the claims speak of *)

Answered(op) == call.op = op /\ response.status # 0

Failed == response.status >= 400

\* A zip of exactly five numeric characters, surrounding whitespace aside.
FiveDigitZip(zip) ==
    LET z == Strip(PyStr(zip))
    IN  Len(z) = 5 /\ IsDigit(z)

\* A price that is a finite positive number.
FinitePositive(ppsf) ==
    LET p == PyFloat(ppsf)
    IN  p.ok /\ p.v.f = "fin" /\ p.v.t > 0

ValidEntry(it) == FiveDigitZip(it.zip) /\ FinitePositive(it.ppsf)

\* The store after set(zip, price) took effect.
StoreWith(table, zip, ppsf) ==
    LET z == Strip(PyStr(zip))
    IN  [k \in (DOMAIN table) \cup {z} |-> IF k = z THEN PyFloat(ppsf).v ELSE table[k]]

\* The store after set was applied to the valid entries of a batch, in order.
RECURSIVE StoreAfterValid(_, _)
StoreAfterValid(table, items) ==
    IF items = <<>> THEN table
    ELSE StoreAfterValid(IF ValidEntry(Head(items))
                         THEN StoreWith(table, Head(items).zip, Head(items).ppsf)
                         ELSE table,
                         Tail(items))

\* The zips a batch wrote: those for which its loop assigned a row.
ZipsWrittenBy(items) ==
    DOMAIN BulkLoop(<<EmptyTable, EmptyTable>>, items)[2]

\* The valuation in the answer to a valuation call.
Valuation == response.body.valuation

\* The zip of the descriptor of the valuation call, trimmed.
AskedZip == Strip(call.payload.zip_code.s)

ZipIsText == call.payload.zip_code.k = "str"

TextOrAbsent(x) == x.k \in {"str", "null"}

Trimmed(x) == IF x.k = "str" THEN Strip(x.s) ELSE <<>>

-----------------------------------------------------------------------------
(* C1 *)

\* C1: an estimate for a zip that has an override at that moment uses the
\* price the most recent write for that zip assigned, not the seed rate and
\* not an older value.  (An override that is not finite makes the estimate
\* fail: then no ppsfUsed exists.)
C1_OverrideFreshness ==
    (Answered("valuation") /\ ZipIsText /\ AskedZip \in DOMAIN overrides) =>
        /\ AskedZip \in DOMAIN written
        /\ IF written[AskedZip].f = "fin"
           THEN response.status = 200 /\ Valuation.ppsf_used = written[AskedZip]
           ELSE response.status = 500

\* Zip 20774, seeded at 268, overridden to 300, estimated with sqft 2000.
C1_Witness ==
    /\ Answered("valuation")
    /\ call.payload.zip_code = JStr(Z20774)
    /\ call.payload.sqft = JInt(2000)
    /\ PG_PPSF_BASE[Z20774] = Dollars(268)
    /\ Z20774 \in DOMAIN overrides
    /\ overrides[Z20774] = Dollars(300)
    /\ response.status = 200
    /\ Valuation.ppsf_used = Dollars(300)

-----------------------------------------------------------------------------
(* C2 *)

\* C2: set(zip, price) fails whenever zip is not exactly 5 numeric characters
\* or price is not a finite positive number, leaving the store as it was; it
\* succeeds and stores price under zip only when both hold.
C2_SetValidates ==
    (Answered("set") /\ require_admin(call.key) /\ TextOrAbsent(call.item.zip)) =>
        IF ValidEntry(call.item)
        THEN /\ response.status = 200
             /\ overrides = StoreWith(before.overrides, call.item.zip, call.item.ppsf)
        ELSE /\ Failed
             /\ overrides = before.overrides

-----------------------------------------------------------------------------
(* C3 *)

\* C3: setBulk returns the number of distinct zips the batch actually wrote.
C3_BulkCountsWritten ==
    (Answered("bulk") /\ response.status = 200) =>
        response.body.count = Cardinality(ZipsWrittenBy(call.items))

-----------------------------------------------------------------------------
(* C4 *)

\* C4: setBulk skips every invalid entry (not 5 numeric characters, or not a
\* finite positive price) without changing the store and writes every valid
\* one, so the store after the batch is the store after set was applied to
\* its valid entries in order.
C4_BulkPartialAcceptance ==
    (Answered("bulk") /\ response.status = 200) =>
        overrides = StoreAfterValid(before.overrides, call.items)

-----------------------------------------------------------------------------
(* C8 *)

\* countyMultiplier, in hundredths: 1.0 for an absent or unknown county.
CountyMultiplier(county) ==
    IF Trimmed(county) \in DOMAIN COUNTY_MULT THEN COUNTY_MULT[Trimmed(county)] ELSE 100

\* C8: if the trimmed zip is a key of the merged snapshot (an override before
\* a seed rate) ppsfUsed is that value whatever the county; otherwise it is
\* 220.0 times the county multiplier.  (An override that is not finite makes
\* the estimate fail.)
C8_LayeredPrecedence ==
    (Answered("valuation") /\ TextOrAbsent(call.payload.zip_code)
                           /\ TextOrAbsent(call.payload.county)) =>
        LET z == Trimmed(call.payload.zip_code)
            expected ==
                IF z \in DOMAIN overrides THEN overrides[z]
                ELSE IF z \in DOMAIN PG_PPSF_BASE THEN PG_PPSF_BASE[z]
                ELSE Fin((2200 * CountyMultiplier(call.payload.county)) \div 100)
        IN  IF expected.f = "fin"
            THEN response.status = 200 /\ Valuation.ppsf_used = expected
            ELSE response.status = 500

\* Zip 00000 is in no table; with county Montgomery ppsfUsed is 319.0.
C8_Witness ==
    /\ Answered("valuation")
    /\ call.payload.zip_code = JStr(Z00000)
    /\ Z00000 \notin DOMAIN overrides
    /\ call.payload.county = JStr(Montgomery)
    /\ response.status = 200
    /\ Valuation.ppsf_used = Fin(3190)

-----------------------------------------------------------------------------
(* The valuation engine alone: every descriptor against the empty store *)

\* The most bedrooms a descriptor names.
MaxBeds == 6

\* The most bathrooms a descriptor names, in half baths.
MaxHalfBaths == 8

EmptyText == <<>>

WidePayloads ==
    [zip_code : {JNull, JStr(Z20774)},
     county : {JNull, JStr(Calvert)},
     beds : {JNull} \cup {JInt(n) : n \in -1..MaxBeds},
     baths : {JNull, JInt(-1)} \cup {JFloat(5 * h) : h \in 0..MaxHalfBaths},
     sqft : {JNull} \cup {JInt(n) : n \in {-100, 0, 1, 100, 599, 600, 601, 1800, 2000, 5000}},
     condition : {JNull, JStr(EmptyText), JStr(NeedsWork), JStr(Average),
                  JStr(Updated), JStr(Renovated), JStr(Luxury)}]

ApiValuationWide ==
    /\ call = Idle
    /\ \E payload \in WidePayloads :
          /\ call' = [op |-> "valuation", payload |-> payload]
          /\ before' = Snapshot
          /\ response' = api_valuation(payload)
    /\ UNCHANGED <<adminKey, overrides, leads, written, sessions, last>>

NextEstimate ==
    \/ ApiValuationWide
    \/ Deliver

SpecEstimate == Init /\ [][NextEstimate]_vars

-----------------------------------------------------------------------------
(* C9 *)

Absent(x) == x = JNull

-----------------------------------------------------------------------------
(* C10 *)

\* The tiers and the condition adjustment as the claim lists them, in
\* thousandths.
BedsTier(beds) ==
    IF Absent(beds) THEN 0
    ELSE IF beds.n >= 5 THEN 80
    ELSE IF beds.n = 4 THEN 50
    ELSE IF beds.n = 3 THEN 20
    ELSE 0

BathsTier(baths) ==
    IF Absent(baths) THEN 0
    ELSE IF Tenths(baths) >= 30 THEN 50
    ELSE IF Tenths(baths) >= 20 /\ Tenths(baths) < 30 THEN 30
    ELSE 0

ConditionTier(condition) ==
    IF condition = JStr(NeedsWork) THEN -100
    ELSE IF condition = JStr(Average) THEN 0
    ELSE IF condition = JStr(Updated) THEN 50
    ELSE IF condition = JStr(Renovated) THEN 100
    ELSE 0

\* C10: adjustmentFactor = 1.0 + bedsTier + bathsTier + conditionAdj, and it
\* lies in [0.90, 1.23].
C10_AdjustmentFactor ==
    (Answered("valuation") /\ response.status = 200) =>
        /\ Valuation.adjustment =
              1000 + BedsTier(call.payload.beds) + BathsTier(call.payload.baths)
                   + ConditionTier(call.payload.condition)
        /\ Valuation.adjustment >= 900
        /\ Valuation.adjustment <= 1230

\* beds=5, baths=3, Renovated gives 1.23.
C10_Witness ==
    /\ Answered("valuation")
    /\ call.payload.beds = JInt(5)
    /\ call.payload.baths = JFloat(30)
    /\ call.payload.condition = JStr(Renovated)
    /\ response.status = 200
    /\ Valuation.adjustment = 1230

-----------------------------------------------------------------------------
(* The scoring function alone: every lead of the input domain is scored *)

Phone == <<"5", "5", "5">>
Email == <<"a", "@", "b">>
Street == <<"1", " ", "M", "a", "i", "n">>
Investor == <<"i", "n", "v", "e", "s", "t", "o", "r">>
StBogus == <<"W", "o", "n">>

Stages ==
    {JStr(StNew), JStr(StContacted), JStr(StQualified), JStr(StAppointment),
     JStr(StAgreement), JStr(StClosedLost)}

ScoreLeads ==
    {[LeadDefaults EXCEPT !.role = r, !.phone = ph, !.email = em, !.timeline = tl,
                          !.address = ad, !.consent_sms = cs, !.consent_email = ce,
                          !.stage = st] :
        r \in {JStr(Seller), JStr(Buyer), JStr(Investor)},
        ph \in {JNull, JStr(EmptyText), JStr(Phone)},
        em \in {JNull, JStr(Email)},
        tl \in {JNull, JStr(T0to3), JStr(T3to6), JStr(T6to12), JStr(StBogus)},
        ad \in {JNull, JStr(Street)},
        cs \in {JBool(FALSE), JBool(TRUE)},
        ce \in {JBool(FALSE), JBool(TRUE)},
        st \in Stages \cup {JNull, JStr(StBogus)}}

InitScore ==
    /\ adminKey \in AdminKeys
    /\ overrides = EmptyTable
    /\ leads = EmptyTable
    /\ written = EmptyTable
    /\ call \in {[op |-> "score", lead |-> ld] : ld \in ScoreLeads}
    /\ before = NoBefore
    /\ response = NoResponse
    /\ sessions = EmptyTable
    /\ last = NoValuation

ComputeScore ==
    /\ call.op = "score"
    /\ response = NoResponse
    /\ response' = Http200([score |-> compute_score(call.lead)])
    /\ UNCHANGED <<adminKey, overrides, leads, call, before, written, sessions, last>>

NextScore == ComputeScore

SpecScore == InitScore /\ [][NextScore]_vars

-----------------------------------------------------------------------------
(* C6 *)

\* Present: given and not empty.
Present(x) == x # JNull /\ x # JStr(EmptyText)

Points(cond, n) == IF cond THEN n ELSE 0

\* The stage weights as the claim lists them; any other stage weighs 0.
ClaimedStageWeight(stage) ==
    IF stage = JStr(StContacted) THEN 5
    ELSE IF stage = JStr(StQualified) THEN 10
    ELSE IF stage = JStr(StAppointment) THEN 20
    ELSE IF stage = JStr(StAgreement) THEN 30
    ELSE 0

\* C6: the score is the sum of the independent contributions, and it lies
\* in 0..105.
C6_ScoreIsSum ==
    Answered("score") =>
        LET ld == call.lead
        IN  /\ response.status = 200
            /\ response.body.score =
                  Points(Present(ld.phone), 15)
                + Points(Present(ld.email), 10)
                + Points(ld.timeline \in {JStr(T0to3), JStr(T3to6)}, 15)
                + Points(ld.role = JStr(Seller) /\ Present(ld.address), 20)
                + Points(ld.consent_sms = JBool(TRUE), 10)
                + Points(ld.consent_email = JBool(TRUE), 5)
                + ClaimedStageWeight(ld.stage)
            /\ response.body.score \in 0..105

\* A lead with every contribution scores 105.
C6_Witness ==
    /\ Answered("score")
    /\ call.lead.role = JStr(Seller)
    /\ call.lead.stage = JStr(StAgreement)
    /\ response.body.score = 105

-----------------------------------------------------------------------------
(* C7 *)

StageOrder == <<JStr(StNew), JStr(StContacted), JStr(StQualified),
                JStr(StAppointment), JStr(StAgreement)>>

AtStage(ld, i) == [ld EXCEPT !.stage = StageOrder[i]]

\* C7: for leads that differ only in stage the score is strictly increasing
\* along New < Contacted < Qualified < Appointment < Agreement.
C7_StageMonotone ==
    Answered("score") =>
        \A i, j \in 1..Len(StageOrder) :
            (i < j /\ call.lead.stage = StageOrder[j]) =>
                compute_score(AtStage(call.lead, i)) < response.body.score

\* A lead scored at Agreement, 30 above the same lead at New and 25 above
\* it at Contacted.
C7_Witness ==
    /\ Answered("score")
    /\ call.lead.stage = JStr(StAgreement)
    /\ response.body.score = compute_score(AtStage(call.lead, 1)) + 30
    /\ response.body.score = compute_score(AtStage(call.lead, 2)) + 25

-----------------------------------------------------------------------------
(* The lead table: leads are created and updated *)

\* The most rows the lead table holds.
MaxLeads == 1

\* What datetime.utcnow() may return.
Times == {1, 2}

CreatePayloads ==
    { [role |-> JStr(Seller), phone |-> JStr(Phone), address |-> JStr(Street),
       timeline |-> JStr(T0to3), consent_sms |-> JBool(TRUE)],
      [role |-> JStr(Buyer), email |-> JStr(Email), score |-> JInt(99)],
      [role |-> JStr(Seller), stage |-> JStr(StAgreement), score |-> JInt(0),
       utm_source |-> JStr(Email)],
      [first_name |-> JStr(Email)] }

UpdatePayloads ==
    { [stage |-> JStr(StContacted)],
      [timeline |-> JNull, stage |-> JStr(StNew)],
      [score |-> JInt(100)],
      [address |-> JStr(EmptyText), score |-> JInt(20)],
      [utm_source |-> JStr(Email)] }

CreateLead ==
    /\ call = Idle
    /\ Cardinality(DOMAIN leads) < MaxLeads
    /\ \E payload \in CreatePayloads, now \in Times :
          LET r == create_lead(payload, now)
          IN  /\ call' = [op |-> "create", payload |-> payload]
              /\ before' = Snapshot
              /\ response' = r.resp
              /\ leads' = r.table
    /\ UNCHANGED <<adminKey, overrides, written, sessions, last>>

UpdateLead ==
    /\ call = Idle
    /\ \E lead_id \in 1..(MaxLeads + 1), payload \in UpdatePayloads,
          h \in Headers, now \in Times :
          LET r == update_lead(lead_id, payload, h, now)
          IN  /\ call' = [op |-> "update", lead_id |-> lead_id,
                          payload |-> payload, key |-> h]
              /\ before' = Snapshot
              /\ response' = r.resp
              /\ leads' = r.table
    /\ UNCHANGED <<adminKey, overrides, written, sessions, last>>

NextLeads ==
    \/ CreateLead
    \/ UpdateLead
    \/ Deliver

SpecLeads == Init /\ [][NextLeads]_vars

-----------------------------------------------------------------------------
(* C5 *)

\* The score of a lead's fields other than score.
ScoreOfOtherFields(ld) == compute_score([ld EXCEPT !.score = JInt(0)])

\* C5: every stored lead's score is the scoring function of its other fields,
\* whatever score a payload carried and also when only the stage changed.
C5_ScoreIsDerived ==
    \A id \in DOMAIN leads : leads[id].score = JInt(ScoreOfOtherFields(leads[id]))

\* An update that carried a score of its own and changed the address: the
\* stored score is the recomputed one, not the payload's and not the old one.
C5_Witness ==
    /\ Answered("update")
    /\ response.status = 200
    /\ "score" \in DOMAIN call.payload
    /\ leads[call.lead_id].score # call.payload.score
    /\ leads[call.lead_id].score # before.leads[call.lead_id].score
    /\ leads[call.lead_id].score = JInt(ScoreOfOtherFields(leads[call.lead_id]))

-----------------------------------------------------------------------------
(* C11 *)

\* One of the four conditions the engine knows.
Recognized(condition) ==
    condition \in {JStr(NeedsWork), JStr(Average), JStr(Updated), JStr(Renovated)}

\* C11: band is 0.05 when the condition is a recognized value and 0.08 when
\* it is absent or not recognized; a descriptor with condition Average and the
\* same descriptor without a condition get 0.05 and 0.08 with the same estimate.
C11_BandByCondition ==
    (Answered("valuation") /\ response.status = 200) =>
        /\ Valuation.band = IF Recognized(call.payload.condition) THEN 5 ELSE 8
        /\ call.payload.condition = JStr(Average) =>
              LET other == api_valuation([call.payload EXCEPT !.condition = JNull])
              IN  /\ other.status = 200
                  /\ other.body.valuation.band = 8
                  /\ other.body.valuation.estimate = Valuation.estimate

-----------------------------------------------------------------------------
(* C12 *)

\* n is ppsf * sqft * adjustment rounded to an integer: no integer is nearer
\* to the product (either neighbour when the product lies midway).  ppsf in
\* tenths, adjustment in thousandths; the product is split as in RoundProduct.
IsRounded(n, ppsf, sqft, adjustment) ==
    LET a == ppsf * sqft
        q == a \div 10000
        r == a % 10000
        d == n - q * adjustment
    IN  /\ 2 * (10000 * d - r * adjustment) <= 10000
        /\ 2 * (r * adjustment - 10000 * d) <= 10000

\* n is est * pct / 100 cut to an integer toward zero, the source's integer
\* cast; for est >= 0 that is the floor.
IsTruncated(n, est, pct) ==
    IF est >= 0
    THEN 100 * n <= est * pct /\ est * pct < 100 * (n + 1)
    ELSE 100 * n >= est * pct /\ est * pct > 100 * (n - 1)

\* C12: estimate = round(ppsfUsed * sqftUsed * adjustment), low =
\* floor(estimate * (1 - band)) and high = floor(estimate * (1 + band)), the
\* floor being the integer cast; the empty descriptor with no overrides yields
\* 220, 1800, 1.0, 396000, 0.08, 364320 and 427680.
C12_EstimateAndRange ==
    (Answered("valuation") /\ response.status = 200) =>
        /\ IsRounded(Valuation.estimate, Valuation.ppsf_used.t,
                     Valuation.sqft_used, Valuation.adjustment)
        /\ IsTruncated(Valuation.low, Valuation.estimate, 100 - Valuation.band)
        /\ IsTruncated(Valuation.high, Valuation.estimate, 100 + Valuation.band)
        /\ (overrides = EmptyTable /\ \A f \in DOMAIN call.payload : Absent(call.payload[f])) =>
              Valuation = [estimate |-> 396000, low |-> 364320, high |-> 427680,
                           ppsf_used |-> Fin(2200), sqft_used |-> 1800,
                           adjustment |-> 1000, band |-> 8]

\* The empty descriptor, estimated with no overrides.
C12_Witness ==
    /\ Answered("valuation")
    /\ overrides = EmptyTable
    /\ \A f \in DOMAIN call.payload : Absent(call.payload[f])
    /\ response.status = 200
    /\ Valuation.estimate = 396000
    /\ Valuation.low = 364320
    /\ Valuation.high = 427680

-----------------------------------------------------------------------------
(* C13 *)

\* C13: the valuation operation returns a result and never an error, for
\* every descriptor (zip and county text or absent, the other fields present
\* or absent, in or out of range) and every reachable state of the override
\* store.
C13_EstimateTotal ==
    (Answered("valuation") /\ TextOrAbsent(call.payload.zip_code)
                           /\ TextOrAbsent(call.payload.county)) =>
        response.status = 200

-----------------------------------------------------------------------------
(* Concurrent writers.  The routes are plain functions, which the server    *)
(* runs on worker threads: two calls of admin_set_ppsf interleave between   *)
(* their statements.  Each call has a Session of its own; s.get reads the   *)
(* committed table, the assignment or s.add stays in the Session, and       *)
(* s.commit() flushes it (UPDATE or INSERT) and commits in one step of the  *)
(* database, which admits one writing transaction at a time.                *)

\* The most calls of admin_set_ppsf in progress at once.
MaxWriters == 2

Writers == 1..MaxWriters

NoRow == [found |-> FALSE]
Row(ppsf) == [found |-> TRUE, ppsf |-> ppsf]

RaceItems ==
    [zip : {JStr(Z20774), JStr(Z20777)}, ppsf : {JInt(300), JInt(275)}]

Z20774At300 == [z \in {Z20774} |-> Dollars(300)]

InitRace ==
    /\ adminKey \in AdminKeys
    /\ overrides \in {EmptyTable, Z20774At300}
    /\ leads = EmptyTable
    /\ written = overrides
    /\ call = Idle
    /\ before = NoBefore
    /\ response = NoResponse
    /\ sessions = EmptyTable
    /\ last = NoValuation

Finished(resp) == [pc |-> "done", resp |-> resp]

\* app.py:215-221: the call arrives, passes the admin gate and the checks on
\* z and p, and opens its Session.
SetArrives(w) ==
    /\ w \notin DOMAIN sessions
    /\ \E item \in RaceItems :
          LET z == OrEmptyStrip(item.zip)
              p == PyFloat(item.ppsf)
              s == IF ~require_admin(adminKey) THEN Finished(Http(401))
                   ELSE IF ~z.ok \/ ~p.ok THEN Finished(Http(500))
                   ELSE IF z.v = <<>> \/ Len(z.v) # 5 THEN Finished(Http(400))
                   ELSE [pc |-> "get", z |-> z.v, p |-> p.v, row |-> NoRow,
                         pending |-> "none", resp |-> NoResponse]
          IN  sessions' = [x \in (DOMAIN sessions) \cup {w} |->
                              IF x = w THEN s ELSE sessions[x]]
    /\ UNCHANGED <<adminKey, overrides, leads, call, before, response, written, last>>

\* app.py:222: row = s.get(ZipPPSF, z), a SELECT of the committed row.
SetGets(w) ==
    /\ w \in DOMAIN sessions
    /\ sessions[w].pc = "get"
    /\ sessions' = [sessions EXCEPT ![w].pc = "assign",
                                    ![w].row = IF sessions[w].z \in DOMAIN overrides
                                               THEN Row(overrides[sessions[w].z])
                                               ELSE NoRow]
    /\ UNCHANGED <<adminKey, overrides, leads, call, before, response, written, last>>

\* app.py:223-224: if row: row.ppsf = p; else: s.add(ZipPPSF(zip=z, ppsf=p)).
\* Nothing reaches the database yet.
SetAssigns(w) ==
    /\ w \in DOMAIN sessions
    /\ sessions[w].pc = "assign"
    /\ sessions' = [sessions EXCEPT ![w].pc = "commit",
                                    ![w].pending = IF sessions[w].row.found
                                                   THEN "update" ELSE "insert"]
    /\ UNCHANGED <<adminKey, overrides, leads, call, before, response, written, last>>

\* app.py:225-226: s.commit().  A pending row is INSERTed: the primary key
\* (app.py:47) refuses a zip that has a row by now, an IntegrityError, and
\* the route answers 500.  A loaded row is UPDATEd where its ppsf differs from
\* the value loaded; a row assigned the value it was loaded with is not
\* written at all.
SetCommits(w) ==
    /\ w \in DOMAIN sessions
    /\ sessions[w].pc = "commit"
    /\ LET s == sessions[w]
           ok == Rendered(Http200([zip |-> s.z, ppsf |-> s.p]), {s.p})
       IN  IF s.pending = "insert" /\ s.z \in DOMAIN overrides
           THEN /\ sessions' = [sessions EXCEPT ![w].pc = "done", ![w].resp = Http(500)]
                /\ UNCHANGED <<overrides, written>>
           ELSE /\ sessions' = [sessions EXCEPT ![w].pc = "done", ![w].resp = ok]
                /\ overrides' = IF s.pending = "update" /\ s.row.ppsf = s.p
                                THEN overrides
                                ELSE Upsert(overrides, s.z, s.p)
                /\ written' = Record(written, s.z, s.p)
    /\ UNCHANGED <<adminKey, leads, call, before, response, last>>

NextRace ==
    \E w \in Writers :
        \/ SetArrives(w)
        \/ SetGets(w)
        \/ SetAssigns(w)
        \/ SetCommits(w)

SpecRace == InitRace /\ [][NextRace]_vars

-----------------------------------------------------------------------------
(* C14 *)

Done(w) == w \in DOMAIN sessions /\ sessions[w].pc = "done"

\* C14: two set operations interleaved at their read-row / insert-or-update /
\* commit steps both succeed, on different zips and on the same zip (new or
\* not); every zip written has its row, and the row holds the value of the
\* writer that committed last.
C14_WritersNeverConflict ==
    /\ \A w \in Writers : Done(w) => sessions[w].resp.status = 200
    /\ (\A w \in Writers : Done(w)) =>
          \A z \in DOMAIN written :
              z \in DOMAIN overrides /\ overrides[z] = written[z]

-----------------------------------------------------------------------------
(* C15 *)

\* C15: whenever set or setBulk ends in an error the override store is
\* exactly what it was before the call.
C15_FailedWriteChangesNothing ==
    ((Answered("set") \/ Answered("bulk")) /\ Failed) =>
        overrides = before.overrides

-----------------------------------------------------------------------------
(* C17 *)

\* C17: every entry of the override store has a key of exactly 5 digits and a
\* strictly positive finite price.  (The table is keyed by zip: one entry per
\* zip.)
C17_StoreWellFormed ==
    \A z \in DOMAIN overrides :
        /\ Len(z) = 5
        /\ IsDigit(z)
        /\ overrides[z].f = "fin"
        /\ overrides[z].t > 0

-----------------------------------------------------------------------------
(* C18 *)

\* C18: no operation removes a zip from the override store, and the merged
\* snapshot, as computed and as the snapshot read returns it, holds every seed
\* zip and every zip ever written.
C18_NeverDeleted ==
    /\ call # Idle => DOMAIN before.overrides \subseteq DOMAIN overrides
    /\ DOMAIN written \subseteq DOMAIN overrides
    /\ (DOMAIN PG_PPSF_BASE) \cup (DOMAIN written) \subseteq DOMAIN current_ppsf_map
    /\ (Answered("get") /\ response.status = 200) =>
          (DOMAIN PG_PPSF_BASE) \cup (DOMAIN written) \subseteq DOMAIN response.body.ppsf

\* A write to a zip that had a row, with another zip in the store: the row is
\* replaced and the other row stays.
C18_Witness ==
    /\ Answered("set")
    /\ response.status = 200
    /\ response.body.zip \in DOMAIN before.overrides
    /\ before.overrides[response.body.zip] # overrides[response.body.zip]
    /\ DOMAIN overrides = DOMAIN before.overrides
    /\ Cardinality(DOMAIN overrides) >= 2

-----------------------------------------------------------------------------
(* C19 *)

\* C19: in every reachable state of the override store a returned estimate is
\* strictly positive and low <= estimate <= high.
C19_RangeSanity ==
    (Answered("valuation") /\ response.status = 200) =>
        /\ Valuation.estimate > 0
        /\ Valuation.low <= Valuation.estimate
        /\ Valuation.estimate <= Valuation.high

-----------------------------------------------------------------------------
(* Repeated estimates: valuations, writes and new leads in any order, the   *)
(* client keeping the latest valuation it has read.                         *)

NoDescriptor ==
    [zip_code |-> JNull, county |-> JNull, beds |-> JNull, baths |-> JNull,
     sqft |-> JNull, condition |-> JNull]

RepeatPayloads ==
    { NoDescriptor,
      [NoDescriptor EXCEPT !.zip_code = JStr(Z00000), !.county = JStr(Montgomery)],
      [NoDescriptor EXCEPT !.zip_code = JStr(Z20774), !.sqft = JInt(2000),
                           !.condition = JStr(Average)] }

RepeatItems == [zip : {JStr(Z00000), JStr(Z20774Padded)}, ppsf : {JInt(300), JStr(T275)}]

\* Mutant: the estimate keeps the default rate it resolved as a row of the
\* table.
RepeatValuation_stores_rate ==
    /\ call = Idle
    /\ \E payload \in RepeatPayloads :
          /\ call' = [op |-> "valuation", payload |-> payload]
          /\ before' = Snapshot
          /\ response' = api_valuation(payload)
          /\ overrides' = IF Trimmed(payload.zip_code) \in DOMAIN current_ppsf_map
                          THEN overrides
                          ELSE Upsert(overrides, Trimmed(payload.zip_code),
                                      Fin(DEFAULT_PPSF))
    /\ UNCHANGED <<adminKey, leads, written, sessions, last>>

RepeatValuation ==
    /\ call = Idle
    /\ \E payload \in RepeatPayloads :
          /\ call' = [op |-> "valuation", payload |-> payload]
          /\ before' = Snapshot
          /\ response' = api_valuation(payload)
    /\ UNCHANGED <<adminKey, overrides, leads, written, sessions, last>>

RepeatSet ==
    /\ call = Idle
    /\ \E item \in RepeatItems, h \in Headers :
          LET r == admin_set_ppsf(item, h)
          IN  /\ call' = [op |-> "set", item |-> item, key |-> h]
              /\ before' = Snapshot
              /\ response' = r.resp
              /\ overrides' = r.table
              /\ written' = r.log
    /\ UNCHANGED <<adminKey, leads, sessions, last>>

\* The client reads a valuation and keeps it, with the descriptor it sent and
\* the table the estimate found.
DeliverValuation ==
    /\ call.op = "valuation"
    /\ last' = [op |-> "valuation", payload |-> call.payload,
                overrides |-> before.overrides, response |-> response]
    /\ call' = Idle
    /\ before' = NoBefore
    /\ response' = NoResponse
    /\ UNCHANGED <<adminKey, overrides, leads, written, sessions>>

NextRepeat ==
    \/ RepeatValuation
    \/ RepeatSet
    \/ CreateLead
    \/ DeliverValuation
    \/ Deliver

SpecRepeat == Init /\ [][NextRepeat]_vars

-----------------------------------------------------------------------------
(* C16 *)

\* The call repeats the latest valuation read: the same descriptor against
\* the same contents of the override store.
RepeatsLast ==
    /\ last # NoValuation
    /\ last.payload = call.payload
    /\ last.overrides = before.overrides

-----------------------------------------------------------------------------
(* The admin surface: every gated route, and create_lead to fill the table, *)
(* under each setting of ADMIN_KEY (unset, empty, set).                     *)

GateKeys == AdminKeys \cup {JStr(EmptyText)}

GateItems ==
    { [zip |-> JStr(Z20774), ppsf |-> JInt(300)],
      [zip |-> JStr(ZShort), ppsf |-> JInt(300)] }

GateBatches == {<<>>} \cup {<<it>> : it \in GateItems}

MainQuery == <<"M", "A", "I", "N">>

GateQueries ==
    [q : {JNull, JStr(MainQuery)}, role : {JNull, JStr(Seller)},
     stage : {JNull, JStr(StContacted)}]

GateUpdates == { [stage |-> JStr(StContacted)] }

InitGate ==
    /\ adminKey \in GateKeys
    /\ overrides = EmptyTable
    /\ leads = EmptyTable
    /\ written = EmptyTable
    /\ call = Idle
    /\ before = NoBefore
    /\ response = NoResponse
    /\ sessions = EmptyTable
    /\ last = NoValuation

GateSet ==
    /\ call = Idle
    /\ \E item \in GateItems, h \in Headers :
          LET r == admin_set_ppsf(item, h)
          IN  /\ call' = [op |-> "set", item |-> item, key |-> h]
              /\ before' = Snapshot
              /\ response' = r.resp
              /\ overrides' = r.table
              /\ written' = r.log
    /\ UNCHANGED <<adminKey, leads, sessions, last>>

GateBulk ==
    /\ call = Idle
    /\ \E items \in GateBatches, h \in Headers :
          LET r == admin_set_ppsf_bulk(items, h)
          IN  /\ call' = [op |-> "bulk", items |-> items, key |-> h]
              /\ before' = Snapshot
              /\ response' = r.resp
              /\ overrides' = r.table
              /\ written' = r.log
    /\ UNCHANGED <<adminKey, leads, sessions, last>>

ListLeads ==
    /\ call = Idle
    /\ \E query \in GateQueries, h \in Headers :
          /\ call' = [op |-> "list", query |-> query, key |-> h]
          /\ before' = Snapshot
          /\ response' = list_leads(query.q, query.role, query.stage, h)
    /\ UNCHANGED <<adminKey, overrides, leads, written, sessions, last>>

GateUpdate ==
    /\ call = Idle
    /\ \E lead_id \in 1..(MaxLeads + 1), payload \in GateUpdates,
          h \in Headers, now \in Times :
          LET r == update_lead(lead_id, payload, h, now)
          IN  /\ call' = [op |-> "update", lead_id |-> lead_id,
                          payload |-> payload, key |-> h]
              /\ before' = Snapshot
              /\ response' = r.resp
              /\ leads' = r.table
    /\ UNCHANGED <<adminKey, overrides, written, sessions, last>>

NextGate ==
    \/ GateSet
    \/ GateBulk
    \/ AdminGetPpsf
    \/ CreateLead
    \/ ListLeads
    \/ GateUpdate
    \/ Deliver

SpecGate == InitGate /\ [][NextGate]_vars

-----------------------------------------------------------------------------
(* C20 *)

\* set, setBulk, the merged-snapshot read, list_leads and update_lead
Gated == {"set", "bulk", "get", "list", "update"}

\* C20: with an admin key configured, a gated call whose X-Admin-Key header is
\* absent or differs from the key is answered 401 with the override store and
\* the leads unchanged; with no key configured, and with the right header, the
\* gate rejects no call.
C20_AdminGate ==
    (call.op \in Gated /\ response.status # 0) =>
        IF Truthy(adminKey) /\ call.key # adminKey
        THEN /\ response.status = 401
             /\ overrides = before.overrides
             /\ leads = before.leads
        ELSE response.status # 401

\* An update of a stored lead with the wrong key, refused.
C20_Witness ==
    /\ Answered("update")
    /\ adminKey = JStr(Secret)
    /\ call.key = JStr(Wrong)
    /\ call.lead_id \in DOMAIN leads
    /\ response.status = 401
    /\ leads = before.leads

-----------------------------------------------------------------------------
(* Updates with any payload: leads are created and updated with payloads    *)
(* that name id, created_at and unknown keys, beside writes to the override *)
(* store.                                                                   *)

Timestamp == <<"2", "0", "2", "0", "-", "0", "1", "-", "0", "1">>

FrameUpdates ==
    { [stage |-> JStr(StContacted)],
      [utm_source |-> JStr(Email)],
      [created_at |-> JStr(Timestamp)],
      [id |-> JInt(2)],
      [id |-> JInt(3), stage |-> JStr(StQualified)] }

\* The ids a PATCH addresses: those a create or an update of FrameUpdates can
\* have given, and one more.
FrameIds == 1..(MaxLeads + 3)

FrameUpdate ==
    /\ call = Idle
    /\ \E lead_id \in FrameIds, payload \in FrameUpdates,
          h \in Headers, now \in Times :
          LET r == update_lead(lead_id, payload, h, now)
          IN  /\ call' = [op |-> "update", lead_id |-> lead_id,
                          payload |-> payload, key |-> h]
              /\ before' = Snapshot
              /\ response' = r.resp
              /\ leads' = r.table
    /\ UNCHANGED <<adminKey, overrides, written, sessions, last>>

NextFrame ==
    \/ CreateLead
    \/ FrameUpdate
    \/ GateSet
    \/ Deliver

SpecFrame == Init /\ [][NextFrame]_vars

-----------------------------------------------------------------------------
(* C21 *)

\* The columns update_lead assigns by itself.
Recomputed == {"updated_at", "score"}

\* C21: update_lead(id, payload) affects only the addressed lead, whatever the
\* payload names: the lead keeps its id (the ids of the table are the same
\* after the call), no other lead and no override entry changes, a column the
\* payload does not name keeps its value (unknown keys are ignored), and an
\* id that matches no stored lead yields 404 with the whole state unchanged.
C21_UpdateFrame ==
    Answered("update") =>
        /\ overrides = before.overrides
        /\ DOMAIN leads = DOMAIN before.leads
        /\ \A i \in DOMAIN leads :
              i # call.lead_id => leads[i] = before.leads[i]
        /\ call.lead_id \in DOMAIN leads =>
              \A f \in DOMAIN leads[call.lead_id] :
                  (f \notin Recomputed /\ f \notin DOMAIN call.payload) =>
                      leads[call.lead_id][f] = before.leads[call.lead_id][f]
        /\ (require_admin(call.key) /\ call.lead_id \notin DOMAIN before.leads) =>
              response.status = 404 /\ leads = before.leads

=============================================================================
